---- MODULE Spec2Model ----
(***************************************************************************)
(* Model of three pieces of the Oppia backend:                             *)
(*   core/domain/feedback_domain.py      feedback domain objects           *)
(*   core/jobs/transforms/validation/story_validation.py  story validators *)
(*   core/controllers/improvements.py    improvement-task handlers         *)
(*                                                                         *)
(* Python str values are sequences of one-character strings, so that       *)
(* split, join, startswith and str(int) are computed, not assumed.         *)
(* Enumerated tokens (operation names, dict keys, statuses) are plain      *)
(* strings.  Python's None is the one-element sequence <<"None">>, which    *)
(* no sequence of characters equals.                                       *)
(***************************************************************************)
EXTENDS Integers, Sequences, FiniteSets, TLC

VARIABLES
    obj,            \* the domain object / stored record under examination
    ret,            \* outcome of the last call made on obj
    username_calls, \* arguments user_services.get_username received in that call
    explorations,   \* the explorations that exist, each [id, version]
    config,         \* the process-wide configuration registry
    task_store,     \* the stored TaskEntry records, one per task identity
    request,        \* the HTTP request last served
    response,       \* what that request ended in
    calls,          \* the collaborator calls made while serving it, in order
    returned,       \* per method of obj: what its first call returned
    records,        \* the stored records the batch engine feeds the validators
    workers         \* per record: how far the validator's invocation has got

vars == <<obj, ret, username_calls, explorations, config, task_store,
          request, response, calls, returned, records, workers>>

feedbackVars == <<obj, ret, username_calls>>
handlerVars == <<explorations, config, task_store, request, response, calls>>
batchVars == <<records, workers>>

(***************************************************************************)
(* Bounds of the model.                                                    *)
(***************************************************************************)
MaxMessageCount == 11
MaxThreadIdLen == 3
MaxMessageIdLen == 5
MaxStoryIdLen == 6
MaxBatch == 2
MaxTaskEntries == 2
MaxVersion == 2
HistoryPageSize == 1

(***************************************************************************)
(* Python values.                                                          *)
(***************************************************************************)
None == <<"None">>

\* Python truthiness of a str|None value: None and '' are falsy.
Truthy(x) == x # None /\ x # <<>>

\* All strings over an alphabet, of length at most n.
Strings(alphabet, n) == UNION {[1..k -> alphabet] : k \in 0..n}

Digits == <<"0", "1", "2", "3", "4", "5", "6", "7", "8", "9">>

RECURSIVE NatToStr(_)
NatToStr(n) ==
    IF n < 10 THEN <<Digits[n + 1]>>
    ELSE NatToStr(n \div 10) \o <<Digits[(n % 10) + 1]>>

\* python_utils.UNICODE applied to an int: its decimal numeral.
UNICODE(i) == IF i < 0 THEN <<"-">> \o NatToStr(0 - i) ELSE NatToStr(i)

\* sep.join([a, b])
Join2(sep, a, b) == a \o sep \o b

\* s.split('.'): the maximal dot-free pieces, in order (one more than dots).
RECURSIVE SplitFrom(_, _, _)
SplitFrom(s, i, cur) ==
    IF i > Len(s) THEN <<cur>>
    ELSE IF s[i] = "." THEN <<cur>> \o SplitFrom(s, i + 1, <<>>)
    ELSE SplitFrom(s, i + 1, Append(cur, s[i]))

Split(s) == SplitFrom(s, 1, <<>>)

\* s.startswith(prefix)
StartsWith(s, prefix) ==
    /\ Len(s) >= Len(prefix)
    /\ SubSeq(s, 1, Len(prefix)) = prefix

\* range(start, stop, -1)
RangeDown(start, stop) ==
    [k \in 1..(IF start > stop THEN start - stop ELSE 0) |-> start - (k - 1)]

(***************************************************************************)
(* Collaborators of the feedback domain objects.                           *)
(***************************************************************************)
\* utils.get_time_in_millisecs: datetimes are whole seconds since the epoch.
get_time_in_millisecs(t) == t * 1000

\* user_services.get_username: the display name stored for a user id.
get_username(user_id) == <<"@">> \o user_id

(***************************************************************************)
(* Input domains of the feedback domain objects.                           *)
(***************************************************************************)
IdAlphabet == {"e", "a", "."}
ThreadIds == Strings(IdAlphabet, MaxThreadIdLen) \ {<<>>}
MessageIds == Strings(IdAlphabet, MaxMessageIdLen)
AuthorIds == {None, <<>>, <<"u", "1">>}
Datetimes == {1, 2}

(***************************************************************************)
(* class FeedbackThread                                                    *)
(***************************************************************************)
FeedbackThread(thread_id, original_author_id, message_count, last_updated, last_nonempty_message_author_id) ==
    [kind |-> "FeedbackThread",
     id |-> thread_id,
     entity_type |-> <<"e">>,
     entity_id |-> <<"a">>,
     state_name |-> <<"s">>,
     original_author_id |-> original_author_id,
     status |-> "open",
     subject |-> <<"s">>,
     summary |-> None,
     has_suggestion |-> FALSE,
     message_count |-> message_count,
     created_on |-> 1,
     last_updated |-> last_updated,
     last_nonempty_message_text |-> None,
     last_nonempty_message_author_id |-> last_nonempty_message_author_id]

\* An expression that may consult user_services.get_username: its value and
\* the arguments the service received.
Lookup(user_id) == [value |-> get_username(user_id), calls |-> <<user_id>>]
NoLookup == [value |-> None, calls |-> <<>>]

\* A call's outcome: returned value or raised error, and the lookups made.
Value(v, lookups) == [raised |-> FALSE, value |-> v, username_calls |-> lookups]
Raise(e, lookups) == [raised |-> TRUE, value |-> e, username_calls |-> lookups]

\* Variant of to_dict that looks every author id up, None included.
FeedbackThread_to_dict_no_guard(self) ==
    LET original_author == Lookup(self.original_author_id)
        last_author == Lookup(self.last_nonempty_message_author_id)
    IN Value(
        [last_updated_msecs |-> get_time_in_millisecs(self.last_updated),
         original_author_username |-> original_author.value,
         state_name |-> self.state_name,
         status |-> self.status,
         subject |-> self.subject,
         summary |-> self.summary,
         thread_id |-> self.id,
         message_count |-> self.message_count,
         last_nonempty_message_text |-> self.last_nonempty_message_text,
         last_nonempty_message_author |-> last_author.value],
        original_author.calls \o last_author.calls)

FeedbackThread_to_dict(self) ==
    LET original_author ==
            IF Truthy(self.original_author_id)
                THEN Lookup(self.original_author_id) ELSE NoLookup
        last_author ==
            IF Truthy(self.last_nonempty_message_author_id)
                THEN Lookup(self.last_nonempty_message_author_id) ELSE NoLookup
    IN Value(
        [last_updated_msecs |-> get_time_in_millisecs(self.last_updated),
         original_author_username |-> original_author.value,
         state_name |-> self.state_name,
         status |-> self.status,
         subject |-> self.subject,
         summary |-> self.summary,
         thread_id |-> self.id,
         message_count |-> self.message_count,
         last_nonempty_message_text |-> self.last_nonempty_message_text,
         last_nonempty_message_author |-> last_author.value],
        original_author.calls \o last_author.calls)

get_full_message_id(self, message_id) ==
    Join2(<<".">>, self.id, UNICODE(message_id))

\* Variant of get_last_two_message_ids with the test i > 0.
get_last_two_message_ids_positive_only(self) ==
    LET r == RangeDown(self.message_count - 1, self.message_count - 3)
    IN Value([k \in DOMAIN r |->
                IF r[k] > 0 THEN get_full_message_id(self, r[k]) ELSE None],
             <<>>)

get_last_two_message_ids(self) ==
    LET r == RangeDown(self.message_count - 1, self.message_count - 3)
    IN Value([k \in DOMAIN r |->
                IF r[k] >= 0 THEN get_full_message_id(self, r[k]) ELSE None],
             <<>>)

(***************************************************************************)
(* class FeedbackMessage                                                   *)
(***************************************************************************)
FeedbackMessage(full_message_id, author_id, created_on) ==
    [kind |-> "FeedbackMessage",
     id |-> full_message_id,
     thread_id |-> <<"t">>,
     message_id |-> 0,
     author_id |-> author_id,
     updated_status |-> None,
     updated_subject |-> None,
     text |-> <<"x">>,
     created_on |-> created_on,
     last_updated |-> created_on,
     received_via_email |-> FALSE]

\* Variant of entity_id that takes the last component.
FeedbackMessage_entity_id_last(self) ==
    LET parts == Split(self.id)
    IN Value(parts[Len(parts)], <<>>)

FeedbackMessage_entity_id(self) ==
    LET parts == Split(self.id)
    IN IF Len(parts) >= 2 THEN Value(parts[2], <<>>)
       ELSE Raise("IndexError", <<>>)

\* Variant of entity_type that checks the id's shape first.
FeedbackMessage_entity_type_checked(self) ==
    LET parts == Split(self.id)
    IN IF Len(parts) = 3 THEN Value(parts[1], <<>>)
       ELSE Raise("InvalidIdError", <<>>)

FeedbackMessage_entity_type(self) == Value(Split(self.id)[1], <<>>)

\* The dict display is evaluated key by key: the username lookup comes before
\* the entity_id property, whose IndexError ends the call.
FeedbackMessage_to_dict(self) ==
    LET author ==
            IF Truthy(self.author_id) THEN Lookup(self.author_id) ELSE NoLookup
        entity_type == FeedbackMessage_entity_type(self)
        entity_id == FeedbackMessage_entity_id(self)
    IN IF entity_id.raised THEN Raise(entity_id.value, author.calls)
       ELSE Value(
        [author_username |-> author.value,
         created_on_msecs |-> get_time_in_millisecs(self.created_on),
         entity_type |-> entity_type.value,
         entity_id |-> entity_id.value,
         message_id |-> self.message_id,
         text |-> self.text,
         updated_status |-> self.updated_status,
         updated_subject |-> self.updated_subject],
        author.calls)

(***************************************************************************)
(* class FeedbackThreadSummary                                             *)
(***************************************************************************)
FeedbackThreadSummary(original_author_id, last_updated, author_last_message) ==
    [kind |-> "FeedbackThreadSummary",
     status |-> "open",
     original_author_id |-> original_author_id,
     last_updated |-> last_updated,
     last_message_text |-> <<"x">>,
     total_message_count |-> 1,
     last_message_is_read |-> FALSE,
     second_last_message_is_read |-> FALSE,
     author_last_message |-> author_last_message,
     author_second_last_message |-> None,
     exploration_title |-> <<"t">>,
     exploration_id |-> <<"a">>,
     thread_id |-> <<"e", ".", "a">>]

FeedbackThreadSummary_to_dict(self) ==
    Value(
    [status |-> self.status,
     original_author_id |-> self.original_author_id,
     last_updated_msecs |-> get_time_in_millisecs(self.last_updated),
     last_message_text |-> self.last_message_text,
     total_message_count |-> self.total_message_count,
     last_message_is_read |-> self.last_message_is_read,
     second_last_message_is_read |-> self.second_last_message_is_read,
     author_last_message |-> self.author_last_message,
     author_second_last_message |-> self.author_second_last_message,
     exploration_title |-> self.exploration_title,
     exploration_id |-> self.exploration_id,
     thread_id |-> self.thread_id],
    <<>>)

(***************************************************************************)
(* class FeedbackAnalytics, class FeedbackMessageReference                 *)
(***************************************************************************)
FeedbackAnalytics(entity_type, entity_id, num_open_threads, num_total_threads) ==
    [kind |-> "FeedbackAnalytics",
     id |-> entity_id,
     entity_type |-> entity_type,
     num_open_threads |-> num_open_threads,
     num_total_threads |-> num_total_threads]

FeedbackAnalytics_to_dict(self) ==
    Value(
    [num_open_threads |-> self.num_open_threads,
     num_total_threads |-> self.num_total_threads],
    <<>>)

FeedbackMessageReference(entity_type, entity_id, thread_id, message_id) ==
    [kind |-> "FeedbackMessageReference",
     entity_type |-> entity_type,
     entity_id |-> entity_id,
     thread_id |-> thread_id,
     message_id |-> message_id]

FeedbackMessageReference_to_dict(self) ==
    Value(
    [entity_type |-> self.entity_type,
     entity_id |-> self.entity_id,
     thread_id |-> self.thread_id,
     message_id |-> self.message_id],
    <<>>)

(***************************************************************************)
(* Story validators (story_validation.py).                                 *)
(***************************************************************************)
StoryAlphabet == {"s", "t", "o", "r", "y"}
StoryModelIds == Strings(StoryAlphabet, MaxStoryIdLen)
STORY == <<"s", "t", "o", "r", "y">>

\* The class object story_domain.StoryChange.
StoryChange == <<"story_domain.StoryChange">>

StoryModel(kind, id) == [kind |-> kind, id |-> id]

\* job_utils.clone_model: a new record holding the same property values.
clone_model(input_model) == [k \in DOMAIN input_model |-> input_model[k]]

Snapshot_get_change_domain_class(unused_input_model) == Value(StoryChange, <<>>)

\* 'story' in model.id
Contains(s, sub) ==
    \E i \in 1..(Len(s) - Len(sub) + 1) : SubSeq(s, i, i + Len(sub) - 1) = sub

\* Variant of the commit-log validator that tests containment.
CommitLog_get_change_domain_class_contains(input_model) ==
    LET model == clone_model(input_model)
    IN IF Contains(model.id, STORY) THEN Value(StoryChange, <<>>)
       ELSE Value(None, <<>>)

\* The if statement of the commit-log validator, on the local clone.
CommitLog_change_domain_class_of(model) ==
    IF StartsWith(model.id, STORY) THEN Value(StoryChange, <<>>)
    ELSE Value(None, <<>>)

CommitLog_get_change_domain_class(input_model) ==
    LET model == clone_model(input_model)
    IN CommitLog_change_domain_class_of(model)

(***************************************************************************)
(* Calls on the objects.  Each action is one constructor or method call;   *)
(* ret records which call it was and how it ended.                         *)
(***************************************************************************)
NoObject == [kind |-> "none"]

\* The methods and properties that can be called on an object.
MethodOps == {"to_dict", "get_last_two_message_ids", "entity_id", "entity_type", "_get_change_domain_class"}

\* returned[op]: whether op was called, what its first call returned, and
\* whether it has been called again since.
NotCalled == [called |-> FALSE]
FirstCall(r) == [called |-> TRUE, repeated |-> FALSE, raised |-> r.raised, value |-> r.value]
NothingReturned == [op \in MethodOps |-> NotCalled]

Outcome(op, r) ==
    /\ ret' = [op |-> op, raised |-> r.raised, value |-> r.value]
    /\ username_calls' = r.username_calls
    /\ returned' =
            IF op \notin MethodOps THEN NothingReturned
            ELSE IF returned[op].called THEN [returned EXCEPT ![op].repeated = TRUE]
            ELSE [returned EXCEPT ![op] = FirstCall(r)]

\* Objects are constructed once and then only called: construction is enabled
\* while no object exists yet.
Construct(o) ==
    /\ obj' = o
    /\ Outcome("__init__", Value(None, <<>>))
    /\ UNCHANGED <<handlerVars, batchVars>>

Call(kind, op, r) ==
    /\ obj.kind = kind
    /\ Outcome(op, r)
    /\ UNCHANGED <<obj, explorations, config, task_store, request, response, calls, records, workers>>

NewFeedbackThread ==
    /\ obj = NoObject
    /\ \E thread_id \in ThreadIds, original_author_id \in AuthorIds,
          message_count \in 0..MaxMessageCount, last_updated \in Datetimes,
          last_author_id \in AuthorIds :
           Construct(FeedbackThread(thread_id, original_author_id, message_count,
                                    last_updated, last_author_id))

NewFeedbackMessage ==
    /\ obj = NoObject
    /\ \E full_message_id \in MessageIds, author_id \in AuthorIds,
          created_on \in Datetimes :
           Construct(FeedbackMessage(full_message_id, author_id, created_on))

NewFeedbackThreadSummary ==
    /\ obj = NoObject
    /\ \E original_author_id \in AuthorIds, last_updated \in Datetimes,
          author_last_message \in {None, get_username(<<"u", "1">>)} :
           Construct(FeedbackThreadSummary(original_author_id, last_updated,
                                           author_last_message))

ThreadToDict ==
    Call("FeedbackThread", "to_dict", FeedbackThread_to_dict(obj))

\* Variant of the call in which the thread forgets the messages it reported.
ThreadGetLastTwoMessageIds_consuming ==
    /\ obj.kind = "FeedbackThread"
    /\ Outcome("get_last_two_message_ids", get_last_two_message_ids(obj))
    /\ obj' = [obj EXCEPT !.message_count = IF @ >= 2 THEN @ - 2 ELSE 0]
    /\ UNCHANGED <<handlerVars, batchVars>>

ThreadGetLastTwoMessageIds ==
    Call("FeedbackThread", "get_last_two_message_ids",
         get_last_two_message_ids(obj))

MessageEntityId ==
    Call("FeedbackMessage", "entity_id", FeedbackMessage_entity_id(obj))

MessageEntityType ==
    Call("FeedbackMessage", "entity_type", FeedbackMessage_entity_type(obj))

MessageToDict ==
    Call("FeedbackMessage", "to_dict", FeedbackMessage_to_dict(obj))

SummaryToDict ==
    Call("FeedbackThreadSummary", "to_dict", FeedbackThreadSummary_to_dict(obj))

NewFeedbackAnalytics ==
    /\ obj = NoObject
    /\ \E entity_id \in {<<"a">>, <<"e">>}, num_open_threads \in 0..1,
          num_total_threads \in 1..2 :
           Construct(FeedbackAnalytics(<<"e">>, entity_id, num_open_threads,
                                       num_total_threads))

AnalyticsToDict ==
    Call("FeedbackAnalytics", "to_dict", FeedbackAnalytics_to_dict(obj))

NewFeedbackMessageReference ==
    /\ obj = NoObject
    /\ \E entity_id \in {<<"a">>, <<"e">>}, thread_id \in ThreadIds,
          message_id \in 0..1 :
           Construct(FeedbackMessageReference(<<"e">>, entity_id, thread_id,
                                              message_id))

MessageReferenceToDict ==
    Call("FeedbackMessageReference", "to_dict",
         FeedbackMessageReference_to_dict(obj))

NewStoryModel ==
    /\ obj = NoObject
    /\ \E kind \in {"StorySnapshotMetadataModel", "StoryCommitLogEntryModel"},
          id \in StoryModelIds :
           Construct(StoryModel(kind, id))

ValidateSnapshot ==
    Call("StorySnapshotMetadataModel", "_get_change_domain_class",
         Snapshot_get_change_domain_class(obj))

ValidateCommitLog ==
    Call("StoryCommitLogEntryModel", "_get_change_domain_class",
         CommitLog_get_change_domain_class(obj))

(***************************************************************************)
(* The validators under the batch engine: it holds a collection of stored  *)
(* records and invokes the validator registered for a record's model type  *)
(* once per record, the invocations running in any order and overlapping.  *)
(* An invocation of the commit-log validator is two steps, the clone and   *)
(* the test of the clone's id; model is the invocation's local variable.   *)
(***************************************************************************)
BatchIds == {<<>>, STORY, STORY \o <<"t">>, <<"t">> \o STORY}
CommitTypes == {"create", "edit"}

\* A stored record: its id and one more property of the commit.
StoryRecord(kind, id, commit_type) == [kind |-> kind, id |-> id, commit_type |-> commit_type]

BatchRecords == {StoryRecord(kind, id, commit_type) : kind \in {"StorySnapshotMetadataModel", "StoryCommitLogEntryModel"}, id \in BatchIds, commit_type \in CommitTypes}

Idle == [pc |-> "idle", model |-> None, raised |-> FALSE, result |-> None]
Cloned(model) == [pc |-> "cloned", model |-> model, raised |-> FALSE, result |-> None]
Returned(model, r) == [pc |-> "returned", model |-> model, raised |-> r.raised, result |-> r.value]

ReadRecords ==
    /\ records = <<>>
    /\ \E n \in 1..MaxBatch :
         \E batch \in [1..n -> BatchRecords] :
            /\ records' = batch
            /\ workers' = [i \in 1..n |-> Idle]
    /\ UNCHANGED <<feedbackVars, handlerVars, returned>>

SnapshotInvoke ==
    \E i \in DOMAIN records :
        /\ records[i].kind = "StorySnapshotMetadataModel"
        /\ workers[i].pc = "idle"
        /\ workers' = [workers EXCEPT ![i] = Returned(None, Snapshot_get_change_domain_class(records[i]))]
        /\ UNCHANGED <<feedbackVars, handlerVars, returned, records>>

CommitLogClone ==
    \E i \in DOMAIN records :
        /\ records[i].kind = "StoryCommitLogEntryModel"
        /\ workers[i].pc = "idle"
        /\ workers' = [workers EXCEPT ![i] = Cloned(clone_model(records[i]))]
        /\ UNCHANGED <<feedbackVars, handlerVars, returned, records>>

\* Variant of the return step in which model is one slot shared by the
\* invocations: the test reads whichever clone is held at the moment.
CommitLogReturn_shared_model ==
    \E i \in DOMAIN records :
        /\ workers[i].pc = "cloned"
        /\ \E j \in DOMAIN records :
            /\ workers[j].pc = "cloned"
            /\ workers' = [workers EXCEPT ![i] = Returned(workers[j].model, CommitLog_change_domain_class_of(workers[j].model))]
        /\ UNCHANGED <<feedbackVars, handlerVars, returned, records>>

CommitLogReturn ==
    \E i \in DOMAIN records :
        /\ workers[i].pc = "cloned"
        /\ workers' = [workers EXCEPT ![i] = Returned(workers[i].model, CommitLog_change_domain_class_of(workers[i].model))]
        /\ UNCHANGED <<feedbackVars, handlerVars, returned, records>>

(***************************************************************************)
(* Improvement-task handlers (improvements.py) and their collaborators.    *)
(***************************************************************************)
\* exp0 names no exploration at any time; exp1 is created, saved and deleted.
ExpIds == {"exp0", "exp1"}
SavedExpIds == {"exp1"}
UserIds == {"uid_a", "uid_b"}

\* The edit rights the access-control layer grants: uid_a may edit exp1 and
\* uid_b may edit under exp0; every other request is refused.
EditRights == {<<"uid_a", "exp1">>, <<"uid_b", "exp0">>}
\* datetime.datetime.utcnow(): the one instant the requests are served at.
UtcNowValues == {1}

\* constants.TASK_ENTITY_TYPE_EXPLORATION, constants.TASK_TARGET_TYPE_STATE
TASK_ENTITY_TYPE_EXPLORATION == "exploration"
TASK_TARGET_TYPE_STATE == "state"

\* Request items that passed domain_objects_validator.validate_task_entries:
\* issue_description may be missing, None or a string.
TaskEntryItems ==
    {[entity_version |-> 1, task_type |-> "high_bounce_rate",
      target_id |-> "Introduction", status |-> "open"],
     [entity_version |-> 1, task_type |-> "high_bounce_rate",
      target_id |-> "Introduction", issue_description |-> <<"d">>,
      status |-> "resolved"],
     [entity_version |-> 2, task_type |-> "needs_guiding_responses",
      target_id |-> "End", issue_description |-> None,
      status |-> "resolved"]}

Payloads == UNION {[1..k -> TaskEntryItems] : k \in 0..MaxTaskEntries}

\* improvements_domain.TaskEntry
TaskEntry(entity_type, entity_id, entity_version, task_type, target_type, target_id, issue_description, status, resolver_id, resolved_on) ==
    [entity_type |-> entity_type,
     entity_id |-> entity_id,
     entity_version |-> entity_version,
     task_type |-> task_type,
     target_type |-> target_type,
     target_id |-> target_id,
     issue_description |-> issue_description,
     status |-> status,
     resolver_id |-> resolver_id,
     resolved_on |-> resolved_on]

\* TaskEntry.to_dict: the JSON form of one task, a function of the task.
TaskEntry_to_dict(t) == [task_dict_of |-> t]

\* The identity under which a task is stored.
TaskId(t) ==
    <<t.entity_type, t.entity_id, t.entity_version, t.task_type,
      t.target_type, t.target_id>>

\* improvements_services.put_tasks: stores every task of the batch, in order,
\* each replacing the stored task of the same identity.
RECURSIVE put_tasks(_, _)
put_tasks(store, tasks) ==
    IF Len(tasks) = 0 THEN store
    ELSE put_tasks({t \in store : TaskId(t) # TaskId(Head(tasks))}
                        \cup {Head(tasks)},
                   Tail(tasks))

\* exp_fetchers.get_exploration_by_id (strict): the exploration, or a
\* not-found failure.
get_exploration_by_id(exploration_id) ==
    IF \E x \in explorations : x.id = exploration_id
    THEN [raised |-> FALSE,
          value |-> CHOOSE x \in explorations : x.id = exploration_id]
    ELSE [raised |-> TRUE, value |-> "not_found"]

\* A set of tasks as a list, latest resolution first, then highest version.
Before(a, b) ==
    \/ a.resolved_on > b.resolved_on
    \/ a.resolved_on = b.resolved_on /\ a.entity_version >= b.entity_version

InOrder(S) ==
    CHOOSE f \in [1..Cardinality(S) -> S] :
        /\ \A t \in S : \E i \in DOMAIN f : f[i] = t
        /\ \A i, j \in DOMAIN f : i < j => Before(f[i], f[j])

TasksOf(exploration) ==
    {t \in task_store : /\ t.entity_type = TASK_ENTITY_TYPE_EXPLORATION
                         /\ t.entity_id = exploration.id}

\* improvements_services.fetch_exploration_tasks: the open tasks of the
\* exploration's current version, and for each state name the task types
\* resolved there.
fetch_exploration_tasks(exploration) ==
    LET current == {t \in TasksOf(exploration) :
                        t.entity_version = exploration.version}
        resolved == {t \in current : t.status = "resolved"}
    IN <<InOrder({t \in current : t.status = "open"}),
         [state_name \in {t.target_id : t \in resolved} |->
            {t.task_type : t \in {r \in resolved : r.target_id = state_name}}]>>

\* A urlsafe cursor is the numeral of the position the next page starts at.
CursorAt(position) == UNICODE(position)
Cursors == {CursorAt(k) : k \in 0..2}

PositionOf(urlsafe_start_cursor) ==
    IF urlsafe_start_cursor = None THEN 0
    ELSE CHOOSE k \in 0..2 : CursorAt(k) = urlsafe_start_cursor

Min(a, b) == IF a <= b THEN a ELSE b

\* improvements_services.fetch_exploration_task_history_page: one page of the
\* exploration's resolved tasks from the cursor on, the cursor after the
\* page, and whether tasks remain after it.
fetch_exploration_task_history_page(exploration, urlsafe_start_cursor) ==
    LET history == InOrder({t \in TasksOf(exploration) : t.status = "resolved"})
        start == Min(PositionOf(urlsafe_start_cursor), Len(history))
        end == Min(start + HistoryPageSize, Len(history))
    IN <<SubSeq(history, start + 1, end), CursorAt(end), end < Len(history)>>

\* config_domain: the registry's properties and the values they start with.
\* Rates are in percent.
DefaultConfig ==
    [IS_IMPROVEMENTS_TAB_ENABLED |-> FALSE,
     HIGH_BOUNCE_RATE_TASK_STATE_BOUNCE_RATE_CREATION_THRESHOLD |-> 25,
     HIGH_BOUNCE_RATE_TASK_STATE_BOUNCE_RATE_OBSOLETION_THRESHOLD |-> 20,
     HIGH_BOUNCE_RATE_TASK_MINIMUM_EXPLORATION_STARTS |-> 100]

ConfigValues ==
    [IS_IMPROVEMENTS_TAB_ENABLED |-> BOOLEAN,
     HIGH_BOUNCE_RATE_TASK_STATE_BOUNCE_RATE_CREATION_THRESHOLD |-> {25, 30},
     HIGH_BOUNCE_RATE_TASK_STATE_BOUNCE_RATE_OBSOLETION_THRESHOLD |-> {20, 15},
     HIGH_BOUNCE_RATE_TASK_MINIMUM_EXPLORATION_STARTS |-> {100, 50}]

\* What serving a request comes to: how it ended, the body rendered, the
\* collaborator calls made in order, and the task store it leaves.
Served(ended, body, made, store) ==
    [ended |-> ended, body |-> body, calls |-> made, task_store |-> store]

CallOf(fn, args) == [fn |-> fn, args |-> args]
CallWithResult(fn, args, result) == [fn |-> fn, args |-> args, result |-> result]

EmptyDict == <<>>

\* self.render_json(values)
render_json(values, made, store) == Served("render_json", values, made, store)

\* The failure of get_exploration_by_id leaving the handler.
NotFound(made) == Served("not_found", EmptyDict, made, task_store)

\* acl_decorators.can_edit_exploration: the handler runs only when the
\* access check grants the user edit rights on the exploration.
can_edit_exploration(user_id, exploration_id, handler) ==
    IF <<user_id, exploration_id>> \in EditRights THEN handler
    ELSE Served("unauthorized", EmptyDict, <<>>, task_store)

(***************************************************************************)
(* class ExplorationImprovementsHandler                                    *)
(***************************************************************************)
\* Variant of get that renders an empty result whatever the fetch does.
ExplorationImprovementsHandler_get_body_lenient(exploration_id) ==
    LET fetched == get_exploration_by_id(exploration_id)
        fetch == CallOf("exp_fetchers.get_exploration_by_id", <<exploration_id>>)
    IN render_json(
        [open_tasks |-> <<>>, resolved_task_types_by_state_name |-> EmptyDict],
        <<fetch>>, task_store)

ExplorationImprovementsHandler_get_body(exploration_id) ==
    LET fetched == get_exploration_by_id(exploration_id)
        fetch == CallOf("exp_fetchers.get_exploration_by_id", <<exploration_id>>)
    IN IF fetched.raised THEN NotFound(<<fetch>>)
       ELSE LET tasks == fetch_exploration_tasks(fetched.value)
                open_tasks == tasks[1]
                resolved_task_types_by_state_name == tasks[2]
            IN render_json(
                [open_tasks |->
                    [i \in DOMAIN open_tasks |-> TaskEntry_to_dict(open_tasks[i])],
                 resolved_task_types_by_state_name |->
                    resolved_task_types_by_state_name],
                <<fetch,
                  CallOf("improvements_services.fetch_exploration_tasks",
                         <<fetched.value>>)>>,
                task_store)

ExplorationImprovementsHandler_get(user_id, exploration_id) ==
    can_edit_exploration(
        user_id, exploration_id,
        ExplorationImprovementsHandler_get_body(exploration_id))

\* Variant of task_entries_to_put that walks the items backwards.
task_entries_to_put_reversed(user_id, exploration_id, task_entries, now) ==
    [i \in DOMAIN task_entries |->
        LET task_entry == task_entries[Len(task_entries) + 1 - i]
        IN TaskEntry(
            TASK_ENTITY_TYPE_EXPLORATION,
            exploration_id,
            task_entry.entity_version,
            task_entry.task_type,
            TASK_TARGET_TYPE_STATE,
            task_entry.target_id,
            IF "issue_description" \in DOMAIN task_entry
                THEN task_entry.issue_description ELSE None,
            task_entry.status,
            user_id,
            now)]

\* The list post() builds from the request's task_entries.
task_entries_to_put(user_id, exploration_id, task_entries, now) ==
    [i \in DOMAIN task_entries |->
        LET task_entry == task_entries[i]
        IN TaskEntry(
            TASK_ENTITY_TYPE_EXPLORATION,
            exploration_id,
            task_entry.entity_version,
            task_entry.task_type,
            TASK_TARGET_TYPE_STATE,
            task_entry.target_id,
            IF "issue_description" \in DOMAIN task_entry
                THEN task_entry.issue_description ELSE None,
            task_entry.status,
            user_id,
            now)]

\* Variant of post that refuses an empty task_entries list.
ExplorationImprovementsHandler_post_body_rejects_empty(user_id, exploration_id, task_entries, now) ==
    LET batch == task_entries_to_put(user_id, exploration_id, task_entries, now)
    IN IF Len(task_entries) = 0
       THEN Served("invalid_input", EmptyDict, <<>>, task_store)
       ELSE render_json(
            EmptyDict,
            <<CallOf("improvements_services.put_tasks", <<batch>>)>>,
            put_tasks(task_store, batch))

ExplorationImprovementsHandler_post_body(user_id, exploration_id, task_entries, now) ==
    LET batch == task_entries_to_put(user_id, exploration_id, task_entries, now)
    IN render_json(
        EmptyDict,
        <<CallOf("improvements_services.put_tasks", <<batch>>)>>,
        put_tasks(task_store, batch))

\* Variant of post without the access-control decorator.
ExplorationImprovementsHandler_post_undecorated(user_id, exploration_id, task_entries, now) ==
    ExplorationImprovementsHandler_post_body(
        user_id, exploration_id, task_entries, now)

ExplorationImprovementsHandler_post(user_id, exploration_id, task_entries, now) ==
    can_edit_exploration(
        user_id, exploration_id,
        ExplorationImprovementsHandler_post_body(
            user_id, exploration_id, task_entries, now))

(***************************************************************************)
(* class ExplorationImprovementsHistoryHandler                             *)
(***************************************************************************)
\* HANDLER_ARGS_SCHEMAS: a request without a cursor gets the default, None.
HistoryArgs == {EmptyDict} \cup {[cursor |-> c] : c \in Cursors}

normalized_request(args) ==
    IF "cursor" \in DOMAIN args THEN args ELSE [cursor |-> None]

\* Variant of the history get that always asks for the first page.
ExplorationImprovementsHistoryHandler_get_body_restart(exploration_id, args) ==
    LET fetched == get_exploration_by_id(exploration_id)
        fetch == CallOf("exp_fetchers.get_exploration_by_id", <<exploration_id>>)
    IN IF fetched.raised THEN NotFound(<<fetch>>)
       ELSE LET page == fetch_exploration_task_history_page(fetched.value, None)
                results == page[1]
            IN render_json(
                [results |->
                    [i \in DOMAIN results |-> TaskEntry_to_dict(results[i])],
                 cursor |-> page[2],
                 more |-> page[3]],
                <<fetch,
                  CallWithResult(
                    "improvements_services.fetch_exploration_task_history_page",
                    <<fetched.value, None>>, page)>>,
                task_store)

ExplorationImprovementsHistoryHandler_get_body(exploration_id, args) ==
    LET urlsafe_start_cursor == normalized_request(args).cursor
        fetched == get_exploration_by_id(exploration_id)
        fetch == CallOf("exp_fetchers.get_exploration_by_id", <<exploration_id>>)
    IN IF fetched.raised THEN NotFound(<<fetch>>)
       ELSE LET page == fetch_exploration_task_history_page(
                            fetched.value, urlsafe_start_cursor)
                results == page[1]
                new_urlsafe_start_cursor == page[2]
                more == page[3]
            IN render_json(
                [results |->
                    [i \in DOMAIN results |-> TaskEntry_to_dict(results[i])],
                 cursor |-> new_urlsafe_start_cursor,
                 more |-> more],
                <<fetch,
                  CallWithResult(
                    "improvements_services.fetch_exploration_task_history_page",
                    <<fetched.value, urlsafe_start_cursor>>, page)>>,
                task_store)

ExplorationImprovementsHistoryHandler_get(user_id, exploration_id, args) ==
    can_edit_exploration(
        user_id, exploration_id,
        ExplorationImprovementsHistoryHandler_get_body(exploration_id, args))

(***************************************************************************)
(* class ExplorationImprovementsConfigHandler                              *)
(***************************************************************************)
\* Variant of the config get that answers from the registry's initial values.
ExplorationImprovementsConfigHandler_get_body_cached(exploration_id) ==
    LET fetched == get_exploration_by_id(exploration_id)
        fetch == CallOf("exp_fetchers.get_exploration_by_id", <<exploration_id>>)
    IN IF fetched.raised THEN NotFound(<<fetch>>)
       ELSE render_json(
            [exploration_id |-> exploration_id,
             exploration_version |-> fetched.value.version,
             is_improvements_tab_enabled |->
                DefaultConfig.IS_IMPROVEMENTS_TAB_ENABLED,
             high_bounce_rate_task_state_bounce_rate_creation_threshold |->
                DefaultConfig
                    .HIGH_BOUNCE_RATE_TASK_STATE_BOUNCE_RATE_CREATION_THRESHOLD,
             high_bounce_rate_task_state_bounce_rate_obsoletion_threshold |->
                DefaultConfig
                    .HIGH_BOUNCE_RATE_TASK_STATE_BOUNCE_RATE_OBSOLETION_THRESHOLD,
             high_bounce_rate_task_minimum_exploration_starts |->
                DefaultConfig.HIGH_BOUNCE_RATE_TASK_MINIMUM_EXPLORATION_STARTS],
            <<fetch>>,
            task_store)

ExplorationImprovementsConfigHandler_get_body(exploration_id) ==
    LET fetched == get_exploration_by_id(exploration_id)
        fetch == CallOf("exp_fetchers.get_exploration_by_id", <<exploration_id>>)
    IN IF fetched.raised THEN NotFound(<<fetch>>)
       ELSE render_json(
            [exploration_id |-> exploration_id,
             exploration_version |-> fetched.value.version,
             is_improvements_tab_enabled |->
                config.IS_IMPROVEMENTS_TAB_ENABLED,
             high_bounce_rate_task_state_bounce_rate_creation_threshold |->
                config.HIGH_BOUNCE_RATE_TASK_STATE_BOUNCE_RATE_CREATION_THRESHOLD,
             high_bounce_rate_task_state_bounce_rate_obsoletion_threshold |->
                config
                    .HIGH_BOUNCE_RATE_TASK_STATE_BOUNCE_RATE_OBSOLETION_THRESHOLD,
             high_bounce_rate_task_minimum_exploration_starts |->
                config.HIGH_BOUNCE_RATE_TASK_MINIMUM_EXPLORATION_STARTS],
            <<fetch>>,
            task_store)

ExplorationImprovementsConfigHandler_get(user_id, exploration_id) ==
    can_edit_exploration(
        user_id, exploration_id,
        ExplorationImprovementsConfigHandler_get_body(exploration_id))

(***************************************************************************)
(* Requests.  Each action serves one request to completion; request,       *)
(* response and calls describe the request last served.  A change of the   *)
(* environment (explorations, registry) clears them.                       *)
(***************************************************************************)
NoRequest == [op |-> "none"]
NoResponse == [ended |-> "none", body |-> EmptyDict]

Serve(req, served) ==
    /\ request' = req
    /\ response' = [ended |-> served.ended, body |-> served.body]
    /\ calls' = served.calls
    /\ task_store' = served.task_store
    /\ UNCHANGED <<obj, ret, username_calls, explorations, config, returned, records, workers>>

GetTasks ==
    \E user_id \in UserIds, exploration_id \in ExpIds :
        Serve([op |-> "get_tasks", user_id |-> user_id,
               exploration_id |-> exploration_id],
              ExplorationImprovementsHandler_get(user_id, exploration_id))

PostTasks ==
    \E user_id \in UserIds, exploration_id \in ExpIds,
       task_entries \in Payloads, now \in UtcNowValues :
        Serve([op |-> "post_tasks", user_id |-> user_id,
               exploration_id |-> exploration_id,
               task_entries |-> task_entries],
              ExplorationImprovementsHandler_post(
                user_id, exploration_id, task_entries, now))

GetTaskHistory ==
    \E user_id \in UserIds, exploration_id \in ExpIds,
       args \in HistoryArgs :
        Serve([op |-> "get_task_history",
               user_id |-> user_id, exploration_id |-> exploration_id,
               args |-> args],
              ExplorationImprovementsHistoryHandler_get(
                user_id, exploration_id, args))

GetConfig ==
    \E user_id \in UserIds, exploration_id \in ExpIds :
        Serve([op |-> "get_config", user_id |-> user_id,
               exploration_id |-> exploration_id],
              ExplorationImprovementsConfigHandler_get(user_id, exploration_id))

EnvironmentChange ==
    /\ request' = NoRequest
    /\ response' = NoResponse
    /\ calls' = <<>>
    /\ UNCHANGED <<obj, ret, username_calls, task_store, returned, records, workers>>

\* An exploration is created at version 1, or saved at its next version.
SaveExploration ==
    \E exploration_id \in SavedExpIds :
        /\ \A x \in explorations :
                x.id = exploration_id => x.version < MaxVersion
        /\ explorations' =
                {x \in explorations : x.id # exploration_id}
                \cup {[id |-> exploration_id,
                       version |-> IF \E x \in explorations : x.id = exploration_id
                                   THEN get_exploration_by_id(exploration_id)
                                            .value.version + 1
                                   ELSE 1]}
        /\ UNCHANGED config
        /\ EnvironmentChange

DeleteExploration ==
    \E x \in explorations :
        /\ explorations' = explorations \ {x}
        /\ UNCHANGED config
        /\ EnvironmentChange

\* An administrator sets one property of the registry.
SetConfigProperty ==
    \E name \in DOMAIN ConfigValues :
        \E value \in ConfigValues[name] \ {config[name]} :
            /\ config' = [config EXCEPT ![name] = value]
            /\ UNCHANGED explorations
            /\ EnvironmentChange

Init ==
    /\ obj = NoObject
    /\ ret = [op |-> "none", raised |-> FALSE, value |-> None]
    /\ username_calls = <<>>
    /\ explorations = {}
    /\ config = DefaultConfig
    /\ task_store = {}
    /\ request = NoRequest
    /\ response = NoResponse
    /\ calls = <<>>
    /\ returned = NothingReturned
    /\ records = <<>>
    /\ workers = <<>>

NextFeedback ==
    \/ NewFeedbackThread
    \/ NewFeedbackMessage
    \/ NewFeedbackThreadSummary
    \/ ThreadToDict
    \/ ThreadGetLastTwoMessageIds
    \/ MessageEntityId
    \/ MessageEntityType
    \/ MessageToDict
    \/ SummaryToDict
    \/ NewFeedbackAnalytics
    \/ AnalyticsToDict
    \/ NewFeedbackMessageReference
    \/ MessageReferenceToDict

SpecFeedback == Init /\ [][NextFeedback]_vars

NextValidation ==
    \/ NewStoryModel
    \/ ValidateSnapshot
    \/ ValidateCommitLog

SpecValidation == Init /\ [][NextValidation]_vars

NextBatch ==
    \/ ReadRecords
    \/ SnapshotInvoke
    \/ CommitLogClone
    \/ CommitLogReturn

SpecBatch == Init /\ [][NextBatch]_vars

Next ==
    \/ GetTasks
    \/ PostTasks
    \/ GetTaskHistory
    \/ GetConfig
    \/ SaveExploration
    \/ DeleteExploration

Spec == Init /\ [][Next]_vars

NextConfig ==
    \/ GetConfig
    \/ SetConfigProperty
    \/ SaveExploration
    \/ DeleteExploration

SpecConfig == Init /\ [][NextConfig]_vars

(***************************************************************************)
(* Vocabulary of the properties, defined without the operators above.      *)
(***************************************************************************)
IsDigit(c) == \E d \in 1..Len(Digits) : Digits[d] = c
DigitValue(c) == (CHOOSE d \in 1..Len(Digits) : Digits[d] = c) - 1

RECURSIVE DecimalValue(_)
DecimalValue(s) ==
    IF Len(s) = 0 THEN 0
    ELSE 10 * DecimalValue(SubSeq(s, 1, Len(s) - 1)) + DigitValue(s[Len(s)])

\* s is the decimal numeral of k: digits only, no leading zero, value k.
IsNumeralOf(s, k) ==
    /\ Len(s) >= 1
    /\ \A i \in 1..Len(s) : IsDigit(s[i])
    /\ Len(s) > 1 => s[1] # "0"
    /\ DecimalValue(s) = k

\* s is thread id T, a '.', and the numeral of k.
IsFullMessageId(s, T, k) ==
    /\ Len(s) > Len(T) + 1
    /\ \A i \in 1..Len(T) : s[i] = T[i]
    /\ s[Len(T) + 1] = "."
    /\ IsNumeralOf(SubSeq(s, Len(T) + 2, Len(s)), k)

DotPositions(s) == {i \in 1..Len(s) : s[i] = "."}
SetMin(S) == CHOOSE x \in S : \A y \in S : x <= y
SetMax(S) == CHOOSE x \in S : \A y \in S : x >= y

Called(kind, op) == obj.kind = kind /\ ret.op = op

(***************************************************************************)
(* C1: for a FeedbackThread with id T and message_count n,                 *)
(* get_last_two_message_ids() returns a list of two elements:              *)
(* [T.(n-1), T.(n-2)] when n >= 2, [T.0, None] when n = 1 and              *)
(* [None, None] when n = 0, T.k being T, a '.', and the numeral of k.      *)
(***************************************************************************)
C1_LastTwoMessageIds ==
    Called("FeedbackThread", "get_last_two_message_ids") =>
        /\ ~ret.raised
        /\ Len(ret.value) = 2
        /\ LET n == obj.message_count
               v == ret.value
           IN /\ n >= 2 => /\ IsFullMessageId(v[1], obj.id, n - 1)
                           /\ IsFullMessageId(v[2], obj.id, n - 2)
              /\ n = 1 => /\ IsFullMessageId(v[1], obj.id, 0)
                          /\ v[2] = None
              /\ n = 0 => v = <<None, None>>

C1_Witness ==
    /\ Called("FeedbackThread", "get_last_two_message_ids")
    /\ obj.message_count = 11
    /\ obj.id = <<"e", ".", "a">>
    /\ ret.value = << <<"e", ".", "a", ".", "1", "0">>,
                      <<"e", ".", "a", ".", "9">> >>

(***************************************************************************)
(* C2: ValidateStoryCommitLogEntryModel._get_change_domain_class returns   *)
(* StoryChange for every record whose id starts with "story" and None for  *)
(* every other id, the empty string included.                              *)
(***************************************************************************)
HasStoryPrefix(id) ==
    /\ Len(id) >= 5
    /\ id[1] = "s" /\ id[2] = "t" /\ id[3] = "o" /\ id[4] = "r" /\ id[5] = "y"

C2_StoryPrefixSelectsClass ==
    Called("StoryCommitLogEntryModel", "_get_change_domain_class") =>
        /\ ~ret.raised
        /\ HasStoryPrefix(obj.id) => ret.value = StoryChange
        /\ ~HasStoryPrefix(obj.id) => ret.value = None

C2_Witness ==
    /\ Called("StoryCommitLogEntryModel", "_get_change_domain_class")
    /\ obj.id = <<"s", "t", "o", "r", "y", "t">>
    /\ ret.value = StoryChange

(***************************************************************************)
(* C3: for a FeedbackMessage whose id has three '.'-separated components,  *)
(* entity_type is the first component and entity_id the second.            *)
(***************************************************************************)
C3_EntityFieldsOfCompositeId ==
    (obj.kind = "FeedbackMessage" /\ Cardinality(DotPositions(obj.id)) = 2) =>
        LET first == SetMin(DotPositions(obj.id))
            second == SetMax(DotPositions(obj.id))
        IN /\ ret.op = "entity_type" =>
                /\ ~ret.raised
                /\ ret.value = SubSeq(obj.id, 1, first - 1)
           /\ ret.op = "entity_id" =>
                /\ ~ret.raised
                /\ ret.value = SubSeq(obj.id, first + 1, second - 1)

C3_Witness ==
    /\ Called("FeedbackMessage", "entity_id")
    /\ obj.id = <<"e", "e", ".", "a", ".">>
    /\ ret.value = <<"a">>

(***************************************************************************)
(* C4, as stated: to_dict() of a FeedbackThread, FeedbackMessage or        *)
(* FeedbackThreadSummary whose author / original-author id is None yields  *)
(* a dict that has the corresponding username key, with value None, and    *)
(* the username service is not consulted for the None id.                  *)
(***************************************************************************)
AuthorIdOf(o) ==
    IF o.kind = "FeedbackMessage" THEN o.author_id ELSE o.original_author_id

UsernameKeyOf(o) ==
    IF o.kind = "FeedbackMessage" THEN "author_username"
    ELSE "original_author_username"

FeedbackKinds == {"FeedbackThread", "FeedbackMessage", "FeedbackThreadSummary"}

C4_AsStated ==
    (obj.kind \in FeedbackKinds /\ ret.op = "to_dict"
        /\ AuthorIdOf(obj) = None) =>
        /\ ~ret.raised
        /\ UsernameKeyOf(obj) \in DOMAIN ret.value
        /\ ret.value[UsernameKeyOf(obj)] = None
        /\ \A i \in 1..Len(username_calls) : username_calls[i] # None

(***************************************************************************)
(* C4, amended: to_dict() of a FeedbackThread, and of a FeedbackMessage    *)
(* whenever it returns (it raises IndexError exactly when the id has no    *)
(* '.'), yields for a None author id the username key with value None;     *)
(* the same holds of the thread's last_nonempty_message_author.  The       *)
(* username service never receives None.  FeedbackThreadSummary.to_dict    *)
(* has no username key for the original author: it always returns, emits   *)
(* original_author_id itself and never consults the username service.      *)
(***************************************************************************)
C4_NullAuthorGivesNullUsername ==
    /\ \A i \in 1..Len(username_calls) : username_calls[i] # None
    /\ Called("FeedbackThread", "to_dict") =>
        /\ ~ret.raised
        /\ {"original_author_username", "last_nonempty_message_author"}
                \subseteq DOMAIN ret.value
        /\ obj.original_author_id = None =>
                ret.value.original_author_username = None
        /\ obj.last_nonempty_message_author_id = None =>
                ret.value.last_nonempty_message_author = None
    /\ Called("FeedbackMessage", "to_dict") =>
        /\ ret.raised <=> DotPositions(obj.id) = {}
        /\ (~ret.raised /\ obj.author_id = None) =>
                /\ "author_username" \in DOMAIN ret.value
                /\ ret.value.author_username = None
    /\ Called("FeedbackThreadSummary", "to_dict") =>
        /\ ~ret.raised
        /\ "original_author_username" \notin DOMAIN ret.value
        /\ "original_author_id" \in DOMAIN ret.value
        /\ ret.value.original_author_id = obj.original_author_id
        /\ username_calls = <<>>

C4_Witness ==
    /\ Called("FeedbackThread", "to_dict")
    /\ obj.original_author_id = None
    /\ obj.last_nonempty_message_author_id = <<"u", "1">>
    /\ ret.value.original_author_username = None
    /\ username_calls = << <<"u", "1">> >>

(***************************************************************************)
(* Vocabulary of the handler properties.                                   *)
(***************************************************************************)
HandlerOps == {"get_tasks", "post_tasks", "get_task_history", "get_config"}

\* The request last served was granted / refused edit rights.
Permitted(req) ==
    req.op \in HandlerOps /\ <<req.user_id, req.exploration_id>> \in EditRights
Denied(req) ==
    req.op \in HandlerOps /\ <<req.user_id, req.exploration_id>> \notin EditRights

Exists(exploration_id) == \E x \in explorations : x.id = exploration_id

Acknowledged(resp) == resp = [ended |-> "render_json", body |-> EmptyDict]

FetchOf(exploration_id) ==
    [fn |-> "exp_fetchers.get_exploration_by_id", args |-> <<exploration_id>>]

(***************************************************************************)
(* C5: a permitted POST whose task_entries list is empty ends in the       *)
(* empty acknowledgment {} and leaves the stored task records as they      *)
(* were.                                                                   *)
(***************************************************************************)
C5_EmptyPostStoresNothing ==
    [][(/\ request'.op = "post_tasks"
        /\ Permitted(request')
        /\ request'.task_entries = <<>>)
       => (/\ Acknowledged(response')
           /\ task_store' = task_store)]_vars

C5_Witness ==
    /\ request.op = "post_tasks"
    /\ Permitted(request)
    /\ request.task_entries = <<>>
    /\ Acknowledged(response)
    /\ Cardinality(task_store) = 2

(***************************************************************************)
(* C6: a permitted POST with k task_entries submits to put_tasks one batch *)
(* of k TaskEntry values in request order; the i-th has entity_type        *)
(* exploration, entity_id the path exploration_id, target_type state, the  *)
(* i-th item's entity_version, task_type, target_id and status,            *)
(* resolver_id the requesting user's id, and issue_description the item's  *)
(* value, or None when the item has no such key; the response is {}.       *)
(***************************************************************************)
C6_PostSubmitsOneBatchInOrder ==
    (request.op = "post_tasks" /\ Permitted(request)) =>
        /\ Acknowledged(response)
        /\ Len(calls) = 1
        /\ calls[1].fn = "improvements_services.put_tasks"
        /\ LET batch == calls[1].args[1]
               items == request.task_entries
           IN /\ Len(batch) = Len(items)
              /\ \A i \in 1..Len(items) :
                    /\ batch[i].entity_type = "exploration"
                    /\ batch[i].entity_id = request.exploration_id
                    /\ batch[i].target_type = "state"
                    /\ batch[i].entity_version = items[i].entity_version
                    /\ batch[i].task_type = items[i].task_type
                    /\ batch[i].target_id = items[i].target_id
                    /\ batch[i].status = items[i].status
                    /\ batch[i].resolver_id = request.user_id
                    /\ "issue_description" \in DOMAIN items[i] =>
                         batch[i].issue_description = items[i].issue_description
                    /\ "issue_description" \notin DOMAIN items[i] =>
                         batch[i].issue_description = None

C6_Witness ==
    /\ request.op = "post_tasks"
    /\ Permitted(request)
    /\ request.user_id = "uid_b"
    /\ Len(request.task_entries) = 2
    /\ "issue_description" \notin DOMAIN request.task_entries[1]
    /\ "issue_description" \in DOMAIN request.task_entries[2]
    /\ request.task_entries[2].issue_description = <<"d">>
    /\ Len(calls) = 1
    /\ calls[1].args[1][1].issue_description = None
    /\ calls[1].args[1][2].issue_description = <<"d">>
    /\ Acknowledged(response)

(***************************************************************************)
(* C7: get_task_history hands the history service the request's cursor,    *)
(* None when the request has none, and returns the service's page, next    *)
(* cursor and more flag as they are; without a cursor the page is the      *)
(* first page of the exploration's resolved tasks, and more is true        *)
(* exactly when resolved tasks remain after the page.                      *)
(***************************************************************************)
ResolvedStored(exploration_id) ==
    {t \in task_store : /\ t.entity_type = "exploration"
                         /\ t.entity_id = exploration_id
                         /\ t.status = "resolved"}

RequestedCursor(req) ==
    IF "cursor" \in DOMAIN req.args THEN req.args.cursor ELSE None

C7_HistoryPageAndMoreFlag ==
    (/\ request.op = "get_task_history"
     /\ Permitted(request)
     /\ Exists(request.exploration_id)) =>
        /\ response.ended = "render_json"
        /\ Len(calls) = 2
        /\ calls[1] = FetchOf(request.exploration_id)
        /\ calls[2].fn =
                "improvements_services.fetch_exploration_task_history_page"
        /\ calls[2].args[1].id = request.exploration_id
        /\ calls[2].args[2] = RequestedCursor(request)
        /\ LET page == calls[2].result[1]
               body == response.body
               stored == ResolvedStored(request.exploration_id)
           IN /\ Len(body.results) = Len(page)
              /\ \A i \in 1..Len(page) :
                    body.results[i] = TaskEntry_to_dict(page[i])
              /\ body.cursor = calls[2].result[2]
              /\ body.more = calls[2].result[3]
              /\ \A i \in 1..Len(page) : page[i] \in stored
              /\ \A i, j \in 1..Len(page) : i # j => page[i] # page[j]
              /\ RequestedCursor(request) = None =>
                    /\ Len(page) = Min(HistoryPageSize, Cardinality(stored))
                    /\ body.more <=> Cardinality(stored) > Len(page)

C7_Witness ==
    /\ request.op = "get_task_history"
    /\ Permitted(request)
    /\ "cursor" \notin DOMAIN request.args
    /\ response.ended = "render_json"
    /\ Len(response.body.results) = 1
    /\ response.body.more = TRUE
    /\ Cardinality(ResolvedStored(request.exploration_id)) = 2

(***************************************************************************)
(* C8: when the access check refuses edit rights, none of the four         *)
(* handler bodies runs: no exploration is fetched, no task service is      *)
(* called, no task record is written and no JSON response is rendered.     *)
(***************************************************************************)
C8_DeniedRequestRunsNothing ==
    [][Denied(request')
       => (/\ calls' = <<>>
           /\ response'.ended = "unauthorized"
           /\ task_store' = task_store)]_vars

C8_Witness ==
    /\ request.op = "post_tasks"
    /\ Denied(request)
    /\ Exists(request.exploration_id)
    /\ Len(request.task_entries) = 2
    /\ response.ended = "unauthorized"
    /\ task_store = {}

(***************************************************************************)
(* C9, as stated: for every handler operation, a permitted request naming  *)
(* an exploration id that does not exist ends in the not-found failure     *)
(* raised by the exploration fetch, with no success response.              *)
(***************************************************************************)
C9_AsStated ==
    (Permitted(request) /\ ~Exists(request.exploration_id)) =>
        /\ response.ended = "not_found"
        /\ calls = <<FetchOf(request.exploration_id)>>

(***************************************************************************)
(* C9, amended: for get_tasks, get_task_history and get_config a permitted *)
(* request naming an exploration id that does not exist ends in the        *)
(* not-found failure raised by the exploration fetch: nothing is rendered, *)
(* no other collaborator is called and no task record is written.          *)
(* post_tasks never fetches the exploration: a permitted POST submits its  *)
(* batch and is acknowledged whether or not the exploration exists.        *)
(***************************************************************************)
C9_NotFoundFromFetchExceptPost ==
    [][Permitted(request') =>
        /\ (request'.op # "post_tasks" /\ ~Exists(request'.exploration_id)) =>
            /\ response' = [ended |-> "not_found", body |-> EmptyDict]
            /\ calls' = <<FetchOf(request'.exploration_id)>>
            /\ task_store' = task_store
        /\ request'.op = "post_tasks" =>
            /\ Acknowledged(response')
            /\ \A i \in 1..Len(calls') :
                    calls'[i].fn # "exp_fetchers.get_exploration_by_id"]_vars

C9_Witness ==
    /\ request.op = "get_tasks"
    /\ Permitted(request)
    /\ request.exploration_id = "exp1"
    /\ ~Exists("exp1")
    /\ response.ended = "not_found"
    /\ task_store # {}

(***************************************************************************)
(* C10: get_config for an existing exploration returns the requested       *)
(* exploration_id, the version of the exploration as fetched for this      *)
(* request, and the feature flag and three thresholds the registry holds   *)
(* at the time of the request; nothing is kept from earlier requests.      *)
(***************************************************************************)
C10_ConfigReadAtRequestTime ==
    (/\ request.op = "get_config"
     /\ Permitted(request)
     /\ Exists(request.exploration_id)) =>
        /\ response.ended = "render_json"
        /\ response.body.exploration_id = request.exploration_id
        /\ \E x \in explorations :
                /\ x.id = request.exploration_id
                /\ response.body.exploration_version = x.version
        /\ response.body.is_improvements_tab_enabled =
                config.IS_IMPROVEMENTS_TAB_ENABLED
        /\ response.body
                .high_bounce_rate_task_state_bounce_rate_creation_threshold =
            config.HIGH_BOUNCE_RATE_TASK_STATE_BOUNCE_RATE_CREATION_THRESHOLD
        /\ response.body
                .high_bounce_rate_task_state_bounce_rate_obsoletion_threshold =
            config.HIGH_BOUNCE_RATE_TASK_STATE_BOUNCE_RATE_OBSOLETION_THRESHOLD
        /\ response.body.high_bounce_rate_task_minimum_exploration_starts =
            config.HIGH_BOUNCE_RATE_TASK_MINIMUM_EXPLORATION_STARTS

C10_Witness ==
    /\ request.op = "get_config"
    /\ response.ended = "render_json"
    /\ response.body.exploration_version = 2
    /\ response.body.is_improvements_tab_enabled = TRUE
    /\ response.body.high_bounce_rate_task_minimum_exploration_starts = 50
    /\ config # DefaultConfig

(***************************************************************************)
(* C11: each invocation of a story validator's _get_change_domain_class is *)
(* independent and stateless.  Whatever the order and overlap of the       *)
(* invocations over a collection of records, every invocation returns, its *)
(* result is the one fixed by the validator and the id of its own record   *)
(* (StoryChange for the snapshot validator; for the commit-log validator   *)
(* StoryChange when the id starts with "story", None otherwise), so two    *)
(* records of the same type and id get the same result whatever their      *)
(* other properties; the commit-log validator holds a copy of its own      *)
(* record only, and no step changes a record of the collection.            *)
(***************************************************************************)
ClassFor(kind, id) ==
    IF kind = "StorySnapshotMetadataModel" \/ HasStoryPrefix(id) THEN StoryChange
    ELSE None

C11_ResultsFixedById ==
    /\ DOMAIN workers = DOMAIN records
    /\ \A i \in DOMAIN workers :
        /\ workers[i].pc = "cloned" =>
                /\ workers[i].model = records[i]
                /\ records[i].kind = "StoryCommitLogEntryModel"
        /\ workers[i].pc = "returned" =>
                /\ ~workers[i].raised
                /\ workers[i].result = ClassFor(records[i].kind, records[i].id)
    /\ \A i, j \in DOMAIN workers :
        (/\ workers[i].pc = "returned" /\ workers[j].pc = "returned"
         /\ records[i].kind = records[j].kind /\ records[i].id = records[j].id)
            => workers[i].result = workers[j].result

C11_RecordsUnchanged == records # <<>> => records' = records

C11_InvocationsIndependent ==
    [](C11_ResultsFixedById) /\ [][C11_RecordsUnchanged]_vars

\* Two commit-log invocations overlap: the second record's has returned None
\* while the first record's, which will return StoryChange, holds its clone.
C11_Witness ==
    /\ Len(records) = 2
    /\ records[1] = StoryRecord("StoryCommitLogEntryModel", STORY, "create")
    /\ records[2] = StoryRecord("StoryCommitLogEntryModel", <<"t">> \o STORY, "edit")
    /\ workers[1].pc = "cloned"
    /\ workers[2].pc = "returned"
    /\ workers[2].result = None

(***************************************************************************)
(* C12: every feedback domain object is immutable after construction under *)
(* the operations of the code.  No call of to_dict,                        *)
(* get_last_two_message_ids, entity_type or entity_id changes an attribute *)
(* of the object it is made on, and every call of an operation ends as the *)
(* first call of that operation on the object did: the same value          *)
(* returned, or the same error raised.                                     *)
(***************************************************************************)
FeedbackObjectKinds == {"FeedbackThread", "FeedbackMessage", "FeedbackThreadSummary", "FeedbackAnalytics", "FeedbackMessageReference"}

C12_AttributesKept == obj.kind \in FeedbackObjectKinds => obj' = obj

C12_CallsAgree ==
    (obj.kind \in FeedbackObjectKinds /\ ret.op \in MethodOps) =>
        /\ returned[ret.op].called
        /\ returned[ret.op].raised = ret.raised
        /\ returned[ret.op].value = ret.value

C12_ImmutableAfterConstruction ==
    [](C12_CallsAgree) /\ [][C12_AttributesKept]_vars

\* A thread serialised, asked for its last two message ids, serialised again.
C12_Witness ==
    /\ Called("FeedbackThread", "to_dict")
    /\ obj.message_count = 2
    /\ returned["to_dict"].repeated
    /\ returned["get_last_two_message_ids"].called
    /\ returned["get_last_two_message_ids"].value[2] = obj.id \o <<".", "0">>
    /\ returned["to_dict"].value = ret.value

(***************************************************************************)
(* C13: FeedbackMessage does not validate its composite id.  Construction  *)
(* succeeds for every id string.  entity_type never raises: it is the id   *)
(* up to its first '.', the whole id when there is none.  entity_id raises *)
(* IndexError exactly when the id has no '.', and is otherwise the text    *)
(* between the first '.' and the next one or the end of the id, whatever   *)
(* the number of components.  to_dict raises IndexError exactly when the   *)
(* id has no '.', and otherwise carries those two derived values.  No      *)
(* other error is raised.                                                   *)
(***************************************************************************)
FirstComponent(id) ==
    IF DotPositions(id) = {} THEN id
    ELSE SubSeq(id, 1, SetMin(DotPositions(id)) - 1)

\* Defined for an id with a '.'.
SecondComponent(id) ==
    LET first == SetMin(DotPositions(id))
        later == {i \in DotPositions(id) : i > first}
    IN SubSeq(id, first + 1, IF later = {} THEN Len(id) ELSE SetMin(later) - 1)

C13_NoValidationOfCompositeId ==
    obj.kind = "FeedbackMessage" =>
        /\ ret.op = "__init__" => ~ret.raised
        /\ ret.raised => ret.value = "IndexError"
        /\ ret.op = "entity_type" =>
                /\ ~ret.raised
                /\ ret.value = FirstComponent(obj.id)
        /\ ret.op = "entity_id" =>
                /\ ret.raised <=> DotPositions(obj.id) = {}
                /\ ~ret.raised => ret.value = SecondComponent(obj.id)
        /\ ret.op = "to_dict" =>
                /\ ret.raised <=> DotPositions(obj.id) = {}
                /\ ~ret.raised =>
                        /\ ret.value.entity_type = FirstComponent(obj.id)
                        /\ ret.value.entity_id = SecondComponent(obj.id)

\* An id without a '.': entity_type gave the whole id, to_dict raised.
C13_Witness ==
    /\ Called("FeedbackMessage", "to_dict")
    /\ obj.id = <<"e", "a">>
    /\ ret.raised
    /\ ret.value = "IndexError"
    /\ returned["entity_type"].called
    /\ returned["entity_type"].value = <<"e", "a">>

\* An id of four components: entity_id is the second of them.
C13_WitnessFourComponents ==
    /\ Called("FeedbackMessage", "entity_id")
    /\ obj.id = <<"e", ".", "a", ".", ".">>
    /\ ~ret.raised
    /\ ret.value = <<"a">>

====
